---------------------------- MODULE Spec2Model ----------------------------
(***************************************************************************)
(* Model of src/index.js: the POST /api/query handler (schema fetch, SQL   *)
(* generation, chart-augmentation rewrite, execution, BigInt               *)
(* normalisation, summary, chart decision, chart transformation) and of    *)
(* the pure functions it is built from.                                    *)
(*                                                                         *)
(* JavaScript strings are TLA+ strings; TLC evaluates Len, SubSeq and \o   *)
(* on them, so the text functions below work character by character.       *)
(* The texts fed to them are ASCII and hold no "$" (String.replace reads   *)
(* "$&", "$1" ... in its replacement) and no line terminator other than    *)
(* "\n".                                                                   *)
(***************************************************************************)
EXTENDS Integers, Sequences, FiniteSets, TLC

VARIABLES
    pc,               \* where the handler of the request stands (its await)
    userQuery,        \* const userQuery = req.body.query
    sqlQuery,         \* let sqlQuery
    result,           \* let result
    explanationText,  \* const explanationText
    generateChart,    \* let generateChart
    chartData,        \* let chartData
    response,         \* what res.status(..).json(..) sent: status and body
    calls,            \* the external calls issued so far, with their outcome
    fnArg,            \* argument of the pure function under check
    fnRet             \* its successive return values

vars == <<pc, userQuery, sqlQuery, result, explanationText, generateChart,
          chartData, response, calls, fnArg, fnRet>>

pipelineVars == <<pc, userQuery, sqlQuery, result, explanationText,
                  generateChart, chartData, response, calls>>

-----------------------------------------------------------------------------
(* Bounds of the checked inputs *)

MaxRows == 1
MaxDepth == 2
MaxWidth == 2

-----------------------------------------------------------------------------
(* JavaScript values: t is the kind; s the text of a string; n the value   *)
(* of a number; d the decimal digits of a BigInt (most significant first)  *)
(* and n its sign; keys/elems the own keys in insertion order and the      *)
(* values of an object; elems the elements of an array.                    *)

JsVal(t, s, n, d, keys, elems) ==
    [t |-> t, s |-> s, n |-> n, d |-> d, keys |-> keys, elems |-> elems]

Undefined == JsVal("undefined", "", 0, <<>>, <<>>, <<>>)
Null == JsVal("null", "", 0, <<>>, <<>>, <<>>)
Str(s) == JsVal("string", s, 0, <<>>, <<>>, <<>>)
Num(n) == JsVal("number", "", n, <<>>, <<>>, <<>>)
BigInt(sign, digits) == JsVal("bigint", "", sign, digits, <<>>, <<>>)
Arr(elems) == JsVal("array", "", 0, <<>>, <<>>, elems)
Obj(keys, elems) == JsVal("object", "", 0, <<>>, keys, elems)

\* typeof v
Typeof(v) ==
    CASE v.t \in {"null", "array", "object"} -> "object"
      [] OTHER -> v.t

\* Array.isArray(v)
IsArray(v) == v.t = "array"

\* !v
IsFalsy(v) ==
    \/ v.t \in {"undefined", "null"}
    \/ v.t = "string" /\ v.s = ""
    \/ v.t = "number" /\ v.n = 0

\* obj[key] of an object value
Get(obj, key) ==
    IF \E i \in 1..Len(obj.keys) : obj.keys[i] = key
    THEN obj.elems[CHOOSE i \in 1..Len(obj.keys) : obj.keys[i] = key]
    ELSE Undefined

-----------------------------------------------------------------------------
(* Text *)

Min(S) == CHOOSE x \in S : \A y \in S : x <= y
Max(S) == CHOOSE x \in S : \A y \in S : x >= y

Ch(s, i) == SubSeq(s, i, i)

UpperLetters == "ABCDEFGHIJKLMNOPQRSTUVWXYZ"
LowerLetters == "abcdefghijklmnopqrstuvwxyz"

LowerCh(c) ==
    IF \E i \in 1..Len(UpperLetters) : Ch(UpperLetters, i) = c
    THEN Ch(LowerLetters, CHOOSE i \in 1..Len(UpperLetters) : Ch(UpperLetters, i) = c)
    ELSE c

UpperCh(c) ==
    IF \E i \in 1..Len(LowerLetters) : Ch(LowerLetters, i) = c
    THEN Ch(UpperLetters, CHOOSE i \in 1..Len(LowerLetters) : Ch(LowerLetters, i) = c)
    ELSE c

RECURSIVE ToLowerCase(_)
ToLowerCase(s) ==
    IF s = "" THEN "" ELSE LowerCh(Ch(s, 1)) \o ToLowerCase(SubSeq(s, 2, Len(s)))

RECURSIVE ToUpperCase(_)
ToUpperCase(s) ==
    IF s = "" THEN "" ELSE UpperCh(Ch(s, 1)) \o ToUpperCase(SubSeq(s, 2, Len(s)))

\* \s of a regular expression, and the white space trim() removes
IsSpace(c) == c \in {" ", "\n", "\t"}

\* . of a regular expression: any character but a line terminator
IsDot(c) == c # "\n"

Trim(s) ==
    LET keep == {i \in 1..Len(s) : ~IsSpace(Ch(s, i))}
    IN  IF keep = {} THEN "" ELSE SubSeq(s, Min(keep), Max(keep))

\* p occurs in s at index i
At(s, p, i) == i >= 1 /\ i + Len(p) - 1 <= Len(s) /\ SubSeq(s, i, i + Len(p) - 1) = p

\* s.indexOf(p), 1-based, 0 when absent
IndexOf(s, p) ==
    LET hits == {i \in 1..(Len(s) + 1) : At(s, p, i)}
    IN  IF hits = {} THEN 0 ELSE Min(hits)

\* s.includes(p)
Includes(s, p) == IndexOf(s, p) # 0

\* s.replace(p, r) with a string pattern: the first occurrence only
ReplaceFirst(s, p, r) ==
    LET i == IndexOf(s, p)
    IN  IF i = 0 THEN s
        ELSE SubSeq(s, 1, i - 1) \o r \o SubSeq(s, i + Len(p), Len(s))

\* s.replace(/p/g, '') for a literal p
RECURSIVE RemoveAll(_, _)
RemoveAll(s, p) ==
    LET i == IndexOf(s, p)
    IN  IF i = 0 THEN s
        ELSE SubSeq(s, 1, i - 1) \o RemoveAll(SubSeq(s, i + Len(p), Len(s)), p)

\* the index after the run of white space that starts at i
SkipSpace(s, i) ==
    Min({j \in i..(Len(s) + 1) : j = Len(s) + 1 \/ ~IsSpace(Ch(s, j))})

\* every character of s[a..b-1] is matched by .
AllDot(s, a, b) == \A k \in a..(b - 1) : IsDot(Ch(s, k))

NoMatch == [found |-> FALSE, whole |-> "", g1 |-> ""]

-----------------------------------------------------------------------------
(* Chart-Augmentation Rewriter *)

\* lowerQuery.match(/order by\s+(.*?)(asc|desc|$)/): the leftmost start; \s+
\* greedy (the longest run first); (.*?) lazy (the shortest first).
OrderByMatch(lq) ==
    LET Ends(a) == {j \in a..(Len(lq) + 1) :
                        /\ AllDot(lq, a, j)
                        /\ At(lq, "asc", j) \/ At(lq, "desc", j) \/ j = Len(lq) + 1}
        Afters(i) == {a \in (i + 9)..SkipSpace(lq, i + 8) : Ends(a) # {}}
        starts == {i \in 1..Len(lq) : At(lq, "order by", i) /\ Afters(i) # {}}
    IN  IF starts = {} THEN NoMatch
        ELSE LET i == Min(starts)
                 a == Max(Afters(i))
                 j == Min(Ends(a))
             IN  [found |-> TRUE, whole |-> SubSeq(lq, i, j - 1), g1 |-> SubSeq(lq, a, j - 1)]

\* orderByClause.match(/(sum|count|avg|min|max)\s*\(/)
aggregateNames == <<"sum", "count", "avg", "min", "max">>

AggregateMatch(clause) ==
    LET Fits(i, k) == /\ At(clause, aggregateNames[k], i)
                      /\ At(clause, "(", SkipSpace(clause, i + Len(aggregateNames[k])))
        starts == {i \in 1..Len(clause) : \E k \in 1..Len(aggregateNames) : Fits(i, k)}
    IN  IF starts = {} THEN NoMatch
        ELSE LET i == Min(starts)
                 k == Min({m \in 1..Len(aggregateNames) : Fits(i, m)})
                 f == aggregateNames[k]
             IN  [found |-> TRUE,
                  whole |-> SubSeq(clause, i, SkipSpace(clause, i + Len(f))),
                  g1 |-> f]

\* lowerQuery.match(/select\s+(.*?)\s+from/)
SelectMatch(lq) ==
    LET Ends(a) == {j \in a..Len(lq) :
                        /\ AllDot(lq, a, j)
                        /\ IsSpace(Ch(lq, j))
                        /\ \E b \in (j + 1)..SkipSpace(lq, j) : At(lq, "from", b)}
        Afters(i) == {a \in (i + 7)..SkipSpace(lq, i + 6) : Ends(a) # {}}
        starts == {i \in 1..Len(lq) : At(lq, "select", i) /\ Afters(i) # {}}
    IN  IF starts = {} THEN NoMatch
        ELSE LET i == Min(starts)
                 a == Max(Afters(i))
                 j == Min(Ends(a))
             IN  [found |-> TRUE, whole |-> SubSeq(lq, i, j - 1), g1 |-> SubSeq(lq, a, j - 1)]

modifySqlQueryForCharting(query) ==
    LET lowerQuery == ToLowerCase(query)
        orderByMatch == OrderByMatch(lowerQuery)
        orderByClause == Trim(orderByMatch.g1)
        aggregateMatch == AggregateMatch(orderByClause)
        aggregateFunction == aggregateMatch.whole
        selectMatch == SelectMatch(lowerQuery)
        selectClause == selectMatch.g1
        alias == aggregateMatch.g1 \o "_value"
        modifiedSelect == selectClause \o ", " \o aggregateFunction \o " AS " \o alias
    IN  IF /\ orderByMatch.found /\ orderByMatch.g1 # ""
           /\ aggregateMatch.found
           /\ selectMatch.found /\ selectMatch.g1 # ""
           /\ ~Includes(selectClause, aggregateFunction)
        THEN ReplaceFirst(query, selectClause, modifiedSelect)
        ELSE query

\* The statements the rewriter is checked on: SELECT <projection> FROM <table>
\* [ORDER BY <ordering>], in either letter case, on one line or several.
SelectWords == {"SELECT", "select"}
Projections == {"name", "N", "c", "customerName", "name, SUM(amount) AS total",
                "name, sum(amount)", "name, COUNT(id)", "*"}
Gaps == {" ", "\n"}
FromWords == {"FROM", "from"}
Tables == {"customers", "n", "orders o"}
Orderings == {"", "ORDER BY SUM(amount) DESC", "order by sum(amount)",
              "ORDER BY COUNT (id) ASC", "ORDER BY name", "ORDER BY MAX(description) DESC",
              "ORDER BY ascii(name), MIN(x)", "GROUP BY name ORDER BY AVG(amount) DESC LIMIT 5"}

SqlStatements ==
    {s \o " " \o p \o g \o f \o " " \o t \o (IF o = "" THEN "" ELSE g \o o) :
        s \in SelectWords, p \in Projections, g \in Gaps, f \in FromWords,
        t \in Tables, o \in Orderings}

-----------------------------------------------------------------------------
(* Wide-integer normalisation *)

DigitChars == "0123456789"

\* value.toString() of a BigInt: its decimal digits, "-" before a negative one
RECURSIVE DigitsToString(_)
DigitsToString(d) ==
    IF d = <<>> THEN "" ELSE Ch(DigitChars, Head(d) + 1) \o DigitsToString(Tail(d))

BigIntToString(v) == (IF v.n < 0 THEN "-" ELSE "") \o DigitsToString(v.d)

RECURSIVE convertBigIntToString(_)
convertBigIntToString(obj) ==
    IF Typeof(obj) # "object" \/ obj = Null THEN obj
    ELSE IF IsArray(obj)
    THEN Arr([i \in 1..Len(obj.elems) |-> convertBigIntToString(obj.elems[i])])
    ELSE Obj(obj.keys,
             [i \in 1..Len(obj.elems) |->
                 IF Typeof(obj.elems[i]) = "bigint"
                 THEN Str(BigIntToString(obj.elems[i]))
                 ELSE convertBigIntToString(obj.elems[i])])

\* a BigInt anywhere in v: JSON.stringify(v) throws a TypeError on it
RECURSIVE ContainsBigInt(_)
ContainsBigInt(v) ==
    \/ v.t = "bigint"
    \/ \E i \in 1..Len(v.elems) : ContainsBigInt(v.elems[i])

JsonStringifyThrows(v) == ContainsBigInt(v)

\* The raw values the normalisation is checked on: scalars, and arrays and
\* objects of at most MaxWidth members nested to depth MaxDepth.
WideInteger == BigInt(1, <<9, 0, 0, 7, 1, 9, 9, 2, 5, 4, 7, 4, 0, 9, 9, 3>>)
Scalars == {Null, Str("Alice"), Num(500), WideInteger, BigInt(-1, <<4, 2>>)}
MemberKeys == <<"id", "total", "tags">>

TuplesUpTo(S, n) == UNION {[1..k -> S] : k \in 0..n}

RECURSIVE RawValues(_)
RawValues(depth) ==
    IF depth = 0 THEN Scalars
    ELSE LET inner == RawValues(depth - 1)
             members == TuplesUpTo(inner, MaxWidth)
         IN  Scalars \cup {Arr(m) : m \in members}
                     \cup {Obj(SubSeq(MemberKeys, 1, Len(m)), m) : m \in members}

-----------------------------------------------------------------------------
(* Chart Data Transformer *)

\* the for loop of transformDataForChart over columnNames[i..], with its break
RECURSIVE ClassifyLoop(_, _, _, _)
ClassifyLoop(firstRow, i, labelColumn, valueColumn) ==
    IF i > Len(firstRow.keys) THEN [labelColumn |-> labelColumn, valueColumn |-> valueColumn]
    ELSE LET colName == firstRow.keys[i]
             sampleValue == firstRow.elems[i]
             label == IF Typeof(sampleValue) = "string" /\ labelColumn = Null
                      THEN Str(colName) ELSE labelColumn
             value == IF /\ ~(Typeof(sampleValue) = "string" /\ labelColumn = Null)
                         /\ Typeof(sampleValue) = "number" /\ valueColumn = Null
                      THEN Str(colName) ELSE valueColumn
         IN  IF label # Null /\ value # Null
             THEN [labelColumn |-> label, valueColumn |-> value]
             ELSE ClassifyLoop(firstRow, i + 1, label, value)

\* labelColumn and valueColumn after the loop and the fallback to the first two columns
ClassifyColumns(firstRow) ==
    LET columnNames == firstRow.keys
        found == ClassifyLoop(firstRow, 1, Null, Null)
        labelColumn == IF found.labelColumn = Null /\ Len(columnNames) > 0
                       THEN Str(columnNames[1]) ELSE found.labelColumn
        valueColumn == IF found.valueColumn = Null /\ Len(columnNames) > 1
                       THEN Str(columnNames[2]) ELSE found.valueColumn
    IN  [labelColumn |-> labelColumn, valueColumn |-> valueColumn]

\* Object.keys(firstRow) or row[labelColumn] throws a TypeError on null or undefined
TransformThrows(data) ==
    /\ IsArray(data) /\ Len(data.elems) > 0
    /\ \/ data.elems[1].t \in {"null", "undefined"}
       \/ /\ ClassifyColumns(data.elems[1]).labelColumn # Null
          /\ ClassifyColumns(data.elems[1]).valueColumn # Null
          /\ \E i \in 1..Len(data.elems) : data.elems[i].t \in {"null", "undefined"}

transformDataForChart(data) ==
    IF ~IsArray(data) \/ Len(data.elems) = 0 THEN Null
    ELSE LET cols == ClassifyColumns(data.elems[1])
             labelColumn == cols.labelColumn
             valueColumn == cols.valueColumn
             labels == [i \in 1..Len(data.elems) |-> Get(data.elems[i], labelColumn.s)]
             dataValues == [i \in 1..Len(data.elems) |-> Get(data.elems[i], valueColumn.s)]
             datasetLabel == IF IsFalsy(valueColumn) THEN "Value" ELSE valueColumn.s
         IN  IF labelColumn = Null \/ valueColumn = Null THEN Null
             ELSE Obj(<<"type", "labels", "datasets">>,
                      <<Str("bar"), Arr(labels),
                        Arr(<<Obj(<<"label", "data", "backgroundColor", "borderColor", "borderWidth">>,
                                  <<Str(datasetLabel), Arr(dataValues),
                                    Str("rgba(75, 192, 192, 0.6)"),
                                    Str("rgba(75, 192, 192, 1)"), Num(1)>>)>>)>>)

-----------------------------------------------------------------------------
(* SQL Generator and Chart Decision Engine *)

\* The backquote, which a TLA+ string cannot hold, is written "#".
Fence == "###"

\* text.replace(/```sql/g, '').replace(/```/g, '').trim()
CleanSql(text) == Trim(RemoveAll(RemoveAll(text, Fence \o "sql"), Fence))

\* the keyword test without toLowerCase()
containsChartKeywordCaseSensitive(question) ==
    \E keyword \in {"chart", "plot", "graph", "visualize"} : Includes(question, keyword)

chartKeywords == {"chart", "plot", "graph", "visualize"}

\* chartKeywords.some(keyword => userQuery.toLowerCase().includes(keyword))
containsChartKeyword(question) ==
    \E keyword \in chartKeywords : Includes(ToLowerCase(question), keyword)

\* what shouldGenerateChart returns for the model's reply
shouldGenerateChart(text) == ToUpperCase(Trim(text)) = "YES"

\* error.message without the fallback text
ErrorTextNoFallback(message) == message

\* error.message || 'Failed to process query'
ErrorText(message) == IF message # "" THEN message ELSE "Failed to process query"

\* userQuery === undefined in place of !userQuery
QueryAbsent(query) == query.t = "undefined"

\* !userQuery
QueryMissing(query) == IsFalsy(query)

-----------------------------------------------------------------------------
(* What reaches the handler from outside *)

\* req.body.query: absent, empty, or a question
Questions == {Undefined, Str(""),
              Str("plot total sales by customer"),
              Str("Show me a Chart of orders per country"),
              Str("photographs sold per month"),
              Str("VISUALIZE payments"),
              Str("show me total sales by customer"),
              Str("how many customers are there")}

\* the model's replies to the translation prompt
SqlReplies == {Fence \o "sql\nSELECT name FROM customers ORDER BY SUM(amount) DESC\n" \o Fence,
               "SELECT name, SUM(amount) AS total FROM customers ORDER BY SUM(amount) DESC",
               "SELECT COUNT(id) AS n FROM orders\n"}

\* the rows the database returns: at most MaxRows rows over the same first
\* columns of ColumnNames
ColumnNames == <<"name", "total">>
Cells == {Str("Alice"), Num(500), BigInt(1, <<1, 2>>), Null}

RowsOver(n) == {Obj(SubSeq(ColumnNames, 1, n), c) : c \in [1..n -> Cells]}

ResultSets ==
    {Arr(rows) : rows \in UNION {TuplesUpTo(RowsOver(n), MaxRows) : n \in 0..Len(ColumnNames)}}

\* the model's replies to the summary prompt and to the chart prompt
SummaryReplies == {" There are 2 entries: Alice and Bob.\n"}
ChartReplies == {"YES", " yes\n", "NO", "Yes.", "YES, a bar chart"}

\* the message of an error the database client or the model client throws
ErrorMessages == {"", "connection lost"}

-----------------------------------------------------------------------------
(* POST /api/query *)

Issue(log, name) == Append(log, [name |-> name, outcome |-> "pending", reply |-> ""])

Settle(log, outcome, reply) ==
    [log EXCEPT ![Len(log)] = [name |-> log[Len(log)].name, outcome |-> outcome, reply |-> reply]]

NoResponse == [status |-> 0, body |-> Undefined]

ErrorBody(message) == Obj(<<"error">>, <<Str(message)>>)

\* the catch of the handler
Caught(message) == [status |-> 500, body |-> ErrorBody(ErrorText(message))]

\* chartData after the if (generateChart) block
ChartFor(generate, data) ==
    IF generate
    THEN IF TransformThrows(data) \/ JsonStringifyThrows(transformDataForChart(data))
         THEN Null
         ELSE transformDataForChart(data)
    ELSE Null

\* res.json({query, result, summary, chart}), inside the try
Payload(query, data, text, chart) ==
    LET body == Obj(<<"query", "result", "summary", "chart">>,
                    <<Str(query), data, Str(Trim(text)), chart>>)
    IN  IF JsonStringifyThrows(body)
        THEN Caught("Do not know how to serialize a BigInt")
        ELSE [status |-> 200, body |-> body]

Idle ==
    /\ pc = "idle"
    /\ userQuery = Undefined
    /\ sqlQuery = ""
    /\ result = Undefined
    /\ explanationText = ""
    /\ generateChart = FALSE
    /\ chartData = Null
    /\ response = NoResponse
    /\ calls = <<>>

Init == Idle /\ fnArg = <<>> /\ fnRet = <<>>

\* lines 125-134: the request arrives; the schema fetch is issued
Receive(query) ==
    /\ pc = "idle"
    /\ userQuery' = query
    /\ IF QueryMissing(query)
       THEN /\ response' = [status |-> 400, body |-> ErrorBody("Query is required")]
            /\ pc' = "done"
            /\ calls' = calls
       ELSE /\ response' = response
            /\ pc' = "awaitSchema"
            /\ calls' = Issue(calls, "schema")
    /\ UNCHANGED <<sqlQuery, result, explanationText, generateChart, chartData, fnArg, fnRet>>

\* an await throws into the handler's catch
Throw(message) ==
    /\ calls' = Settle(calls, "failed", "")
    /\ response' = Caught(message)
    /\ pc' = "done"
    /\ UNCHANGED <<userQuery, sqlQuery, result, explanationText, generateChart, chartData,
                   fnArg, fnRet>>

\* lines 134-141: the schema arrives; the translation prompt is sent
SchemaReturns ==
    /\ pc = "awaitSchema"
    /\ calls' = Issue(Settle(calls, "ok", ""), "generateSql")
    /\ pc' = "awaitSql"
    /\ UNCHANGED <<userQuery, sqlQuery, result, explanationText, generateChart, chartData,
                   response, fnArg, fnRet>>

SchemaThrows(message) == pc = "awaitSchema" /\ Throw(message)

\* lines 88-93, 141-178: the model's SQL is cleaned, rewritten and sent to the database
SqlReturns(text) ==
    /\ pc = "awaitSql"
    /\ sqlQuery' = modifySqlQueryForCharting(CleanSql(text))
    /\ calls' = Issue(Settle(calls, "ok", text), "execute")
    /\ pc' = "awaitExec"
    /\ UNCHANGED <<userQuery, result, explanationText, generateChart, chartData, response,
                   fnArg, fnRet>>

\* lines 94-97
SqlThrows == pc = "awaitSql" /\ Throw("Failed to generate SQL query.")

\* lines 178-204: the rows are normalised and the summary prompt is sent
ExecReturns(raw) ==
    /\ pc = "awaitExec"
    /\ result' = convertBigIntToString(raw)
    /\ IF JsonStringifyThrows(convertBigIntToString(raw))
       THEN /\ calls' = Settle(calls, "ok", "")
            /\ response' = Caught("Do not know how to serialize a BigInt")
            /\ pc' = "done"
       ELSE /\ calls' = Issue(Settle(calls, "ok", ""), "summarize")
            /\ response' = response
            /\ pc' = "awaitSummary"
    /\ UNCHANGED <<userQuery, sqlQuery, explanationText, generateChart, chartData, fnArg, fnRet>>

ExecThrows(message) == pc = "awaitExec" /\ Throw(message)

\* lines 204-307: the summary arrives; a chart keyword decides at once,
\* otherwise the chart prompt is sent
SummaryReturns(text) ==
    /\ pc = "awaitSummary"
    /\ explanationText' = text
    /\ IF containsChartKeyword(userQuery.s)
       THEN /\ generateChart' = TRUE
            /\ chartData' = ChartFor(TRUE, result)
            /\ calls' = Settle(calls, "ok", text)
            /\ response' = Payload(sqlQuery, result, text, ChartFor(TRUE, result))
            /\ pc' = "done"
       ELSE /\ generateChart' = generateChart
            /\ chartData' = chartData
            /\ calls' = Issue(Settle(calls, "ok", text), "chartCheck")
            /\ response' = response
            /\ pc' = "awaitChart"
    /\ UNCHANGED <<userQuery, sqlQuery, result, fnArg, fnRet>>

\* a failed summary that goes on to the chart prompt
SummaryThrowsGoesOn(message) ==
    /\ pc = "awaitSummary"
    /\ calls' = Issue(Settle(calls, "failed", ""), "chartCheck")
    /\ pc' = "awaitChart"
    /\ UNCHANGED <<userQuery, sqlQuery, result, explanationText, generateChart, chartData,
                   response, fnArg, fnRet>>

SummaryThrows(message) == pc = "awaitSummary" /\ Throw(message)

\* lines 211-214, 282-307: the model's reply to the chart prompt decides
ChartCheckReturns(text) ==
    /\ pc = "awaitChart"
    /\ generateChart' = shouldGenerateChart(text)
    /\ chartData' = ChartFor(shouldGenerateChart(text), result)
    /\ calls' = Settle(calls, "ok", text)
    /\ response' = Payload(sqlQuery, result, explanationText,
                           ChartFor(shouldGenerateChart(text), result))
    /\ pc' = "done"
    /\ UNCHANGED <<userQuery, sqlQuery, result, explanationText, fnArg, fnRet>>

\* a failed chart prompt that reaches the handler's catch
ChartCheckThrowsFatal == pc = "awaitChart" /\ Throw("chart check failed")

\* lines 215-218, 291-307: the chart prompt failed: no chart
ChartCheckThrows ==
    /\ pc = "awaitChart"
    /\ generateChart' = FALSE
    /\ chartData' = ChartFor(FALSE, result)
    /\ calls' = Settle(calls, "failed", "")
    /\ response' = Payload(sqlQuery, result, explanationText, ChartFor(FALSE, result))
    /\ pc' = "done"
    /\ UNCHANGED <<userQuery, sqlQuery, result, explanationText, fnArg, fnRet>>

Next ==
    \/ \E query \in Questions : Receive(query)
    \/ SchemaReturns
    \/ \E message \in ErrorMessages : SchemaThrows(message)
    \/ \E text \in SqlReplies : SqlReturns(text)
    \/ SqlThrows
    \/ \E raw \in ResultSets : ExecReturns(raw)
    \/ \E message \in ErrorMessages : ExecThrows(message)
    \/ \E text \in SummaryReplies : SummaryReturns(text)
    \/ \E message \in ErrorMessages : SummaryThrows(message)
    \/ \E text \in ChartReplies : ChartCheckReturns(text)
    \/ ChartCheckThrows

Spec == Init /\ [][Next]_vars

-----------------------------------------------------------------------------
(* The rewriter alone: one pass over a statement, then a pass over its output *)

InitRewriter == Idle /\ fnArg \in SqlStatements /\ fnRet = <<>>

Rewrite ==
    /\ Len(fnRet) = 0
    /\ fnRet' = <<modifySqlQueryForCharting(fnArg)>>
    /\ UNCHANGED <<fnArg, pipelineVars>>

RewriteAgain ==
    /\ Len(fnRet) = 1
    /\ fnRet' = Append(fnRet, modifySqlQueryForCharting(fnRet[1]))
    /\ UNCHANGED <<fnArg, pipelineVars>>

NextRewriter == Rewrite \/ RewriteAgain

SpecRewriter == InitRewriter /\ [][NextRewriter]_vars

-----------------------------------------------------------------------------
(* The normalisation alone *)

InitNormalizer == Idle /\ fnArg \in RawValues(MaxDepth) /\ fnRet = <<>>

Normalize ==
    /\ Len(fnRet) = 0
    /\ fnRet' = <<convertBigIntToString(fnArg)>>
    /\ UNCHANGED <<fnArg, pipelineVars>>

NextNormalizer == Normalize

SpecNormalizer == InitNormalizer /\ [][NextNormalizer]_vars

-----------------------------------------------------------------------------
(* Properties *)

\* the projection of a statement "SELECT <projection> FROM ...", in lower case
ProjectionOf(statement) ==
    LET lq == ToLowerCase(statement)
    IN  SubSeq(lq, Len("select ") + 1, IndexOf(lq, "from") - 2)

\* the ordering expression after ORDER BY, in lower case ("" without ORDER BY)
OrderingOf(statement) ==
    LET lq == ToLowerCase(statement)
        i == IndexOf(lq, "order by ")
    IN  IF i = 0 THEN "" ELSE SubSeq(lq, i + Len("order by "), Len(lq))

\* the first aggregate call of an expression with its parenthesised argument
AggregateCallIn(expression) ==
    LET starts == {i \in 1..Len(expression) :
                      \E k \in 1..Len(aggregateNames) :
                          /\ At(expression, aggregateNames[k], i)
                          /\ At(expression, "(", SkipSpace(expression, i + Len(aggregateNames[k])))}
        i == Min(starts)
        closes == {j \in i..Len(expression) : Ch(expression, j) = ")"}
    IN  IF starts = {} \/ closes = {} THEN "" ELSE SubSeq(expression, i, Min(closes))

FunctionOf(call) == SubSeq(call, 1, Min({j \in 1..Len(call) : ~At(LowerLetters, Ch(call, j), IndexOf(LowerLetters, Ch(call, j)))}) - 1)

\* C1: when the ORDER BY expression holds an aggregate call that the projection
\* lacks, the rewritten statement's SELECT list is the original projection
\* followed by the complete call aliased <function>_value (letter case aside).
C1_AggregateAppended ==
    LET call == AggregateCallIn(OrderingOf(fnArg))
    IN  (Len(fnRet) >= 1 /\ call # "" /\ ~Includes(ProjectionOf(fnArg), call))
        => ProjectionOf(fnRet[1]) =
               ProjectionOf(fnArg) \o ", " \o call \o " as " \o FunctionOf(call) \o "_value"

\* C2: the rewriter is idempotent: a second pass over its own output returns
\* that output unchanged.
C2_Idempotent == Len(fnRet) = 2 => fnRet[2] = fnRet[1]

\* C3: the normalised value of an array or mapping holds no wide integer at
\* any depth, be it the value of a key or an element of an array.
C3_NoWideIntegerLeft ==
    (Len(fnRet) = 1 /\ fnArg.t \in {"array", "object"}) => ~ContainsBigInt(fnRet[1])

\* the question holds one of the four chart words, in any letter case
AsksForChart ==
    LET question == ToLowerCase(userQuery.s)
    IN  /\ userQuery.t = "string"
        /\ \E word \in {"chart", "plot", "graph", "visualize"} :
               \E i \in 1..Len(question) : At(question, word, i)

ChartChecks == {i \in 1..Len(calls) : calls[i].name = "chartCheck"}

\* the first four calls of the request all succeeded
FourStagesOk == Len(calls) >= 4 /\ \A i \in 1..4 : calls[i].outcome = "ok"

\* C4: a question with a chart word is decided yes and the model is never
\* asked the chart question; any other question is put to the model, and the
\* decision is yes exactly when the trimmed, uppercased reply is "YES", and no
\* when the call fails.
C4_ChartDecision ==
    /\ AsksForChart => ChartChecks = {}
    /\ (pc = "done" /\ FourStagesOk) =>
          IF AsksForChart THEN generateChart
          ELSE /\ ChartChecks = {5}
               /\ calls[5].outcome = "ok" =>
                     (generateChart <=> ToUpperCase(Trim(calls[5].reply)) = "YES")
               /\ calls[5].outcome = "failed" => ~generateChart

C4_Witness ==
    /\ pc = "done" /\ ~AsksForChart /\ ChartChecks = {5}
    /\ calls[5].reply = " yes\n" /\ generateChart

\* C5: with a non-empty query, a failed schema fetch, SQL generation, SQL
\* execution or summary ends the request with a 500 whose body is only a
\* non-empty error string; a 200 is sent only after all four succeeded.
C5_AllOrNothing ==
    (pc = "done" /\ userQuery.t = "string" /\ userQuery.s # "") =>
        /\ (\E i \in 1..Len(calls) : i <= 4 /\ calls[i].outcome = "failed") =>
              /\ response.status = 500
              /\ response.body.keys = <<"error">>
              /\ response.body.elems[1].t = "string"
              /\ response.body.elems[1].s # ""
        /\ response.status = 200 => FourStagesOk

C5_Witness ==
    /\ pc = "done" /\ Len(calls) = 3 /\ calls[3].outcome = "failed"
    /\ response.status = 500 /\ response.body = ErrorBody("Failed to process query")

\* the transformer cannot give both roles: the result is empty, or its first
\* row has no column, or one column that is not a number
Unclassifiable(data) ==
    \/ Len(data.elems) = 0
    \/ Len(data.elems[1].keys) = 0
    \/ Len(data.elems[1].keys) = 1 /\ data.elems[1].elems[1].t # "number"

C7_MissingQuery ==
    (pc # "idle" /\ (userQuery.t = "undefined" \/ (userQuery.t = "string" /\ userQuery.s = ""))) =>
        /\ pc = "done"
        /\ response = [status |-> 400, body |-> Obj(<<"error">>, <<Str("Query is required")>>)]
        /\ calls = <<>>

C7_Witness == pc = "done" /\ userQuery = Str("") /\ response.status = 400

\* C8: a chart series is built from two different columns of the first row.
C8_DistinctRoles ==
    (pc = "done" /\ chartData # Null) =>
        ClassifyColumns(result.elems[1]).labelColumn # ClassifyColumns(result.elems[1]).valueColumn

\* C9: in a 200 response with a chart every element of chart.datasets[0].data
\* is a number.
C9_NumericData ==
    (response.status = 200 /\ Get(response.body, "chart") # Null) =>
        LET data == Get(Get(Get(response.body, "chart"), "datasets").elems[1], "data")
        IN  \A i \in 1..Len(data.elems) : data.elems[i].t = "number"

CallOrder == <<"schema", "generateSql", "execute", "summarize", "chartCheck">>

\* C10: the external calls of a request are issued in the order schema fetch,
\* SQL generation, SQL execution, summary, chart decision, each at most once,
\* and each only after every earlier one succeeded.
C10_CallOrder ==
    /\ Len(calls) <= Len(CallOrder)
    /\ \A i \in 1..Len(calls) :
           /\ calls[i].name = CallOrder[i]
           /\ i < Len(calls) => calls[i].outcome = "ok"

C10_Witness == Len(calls) = 5 /\ calls[5].outcome = "ok" /\ pc = "done"

=============================================================================
